---- MODULE Spec2Model ----
(***************************************************************************)
(* memSim.py: a demand-paging address-translation simulator.  One run      *)
(* parses its arguments, builds the tables, and then translates the        *)
(* addresses of ADDRESS_FILE one line at a time through a TLB, a page      *)
(* table and a page-replacement algorithm (FIFO, LRU or OPT).              *)
(*                                                                         *)
(* The sizes of the program (256 pages, 256-byte pages, a 16-entry TLB)    *)
(* are scaled down to the bounds below; every other step is the code's.    *)
(* A Python exception that main() does not catch ends the run: pc becomes  *)
(* "crashed" and the state is the one at the raise.                        *)
(***************************************************************************)
EXTENDS Integers, Sequences, FiniteSets, TLC

\* ---- bounds ------------------------------------------------------------
\* number of pages of the logical address space (256 in memSim.py: the page
\* table of line 111, the 0xFF mask of line 151, the FRAMES limit of line 97)
NumPages == 4
\* bytes in a page (PAGE_SIZE = 256 in memSim.py)
PAGE_SIZE == 2
\* entries the TLB keeps (16 in memSim.py, line 204)
TLB_CAPACITY == 2
\* longest reference-sequence file, in lines
MaxTrace == 4

Pages == 0 .. (NumPages - 1)

\* a cell of physical_memory that was never written ([None] * size)
NoneCell == -1

\* The lines an ADDRESS_FILE may hold: one address in every page, at an
\* offset that differs from page to page, and the last byte of page 0.
AddressSet == {p * PAGE_SIZE + (p % PAGE_SIZE) : p \in Pages} \cup {PAGE_SIZE - 1}

\* sys.argv[2] values: 0 .. limit are accepted, limit + 1 is refused
FramesArgs == 0 .. (NumPages + 1)
\* sys.argv[3].upper() values; "RANDOM" stands for every unknown name
PolicyArgs == {"FIFO", "LRU", "OPT", "RANDOM"}

\* BACKING_STORE.bin as the format requires it: NumPages * PAGE_SIZE bytes
FullStore == NumPages * PAGE_SIZE
\* the stores the run may find: the full one, a store that cannot be opened
\* (-1), and stores cut short (the last page one byte short, half the pages)
StoreSet == {FullStore, -1, FullStore - 1, (NumPages \div 2) * PAGE_SIZE}

VARIABLES
    pc,                   \* "start", "run", "rejected", "done", "crashed"
    FRAMES, PRA,          \* the parsed arguments
    ADDRESS_FILE,         \* the lines of the reference-sequence file
    BACKING_STORE,        \* length of BACKING_STORE.bin in bytes, -1: unreadable
    pos,                  \* lines of ADDRESS_FILE the loop has consumed
    physical_memory, tlb, page_table, page_queue,
    page_lru_counter, page_opt_references,
    page_faults, tlb_hits, tlb_misses, total_addresses,
    \* locals of the loop body
    logical_address, page_number, offset, tlb_hit, frame_number,
    physical_address, value

vars == <<pc, FRAMES, PRA, ADDRESS_FILE, BACKING_STORE, pos,
          physical_memory, tlb, page_table, page_queue,
          page_lru_counter, page_opt_references,
          page_faults, tlb_hits, tlb_misses, total_addresses,
          logical_address, page_number, offset, tlb_hit, frame_number,
          physical_address, value>>

config == <<FRAMES, PRA, ADDRESS_FILE, BACKING_STORE>>
counters == <<page_faults, tlb_hits, tlb_misses, total_addresses>>
tables == <<physical_memory, tlb, page_table, page_queue,
            page_lru_counter, page_opt_references>>
locals == <<logical_address, page_number, offset, tlb_hit, frame_number,
            physical_address, value>>

\* ---- Python list helpers -------------------------------------------------
Min(S) == CHOOSE x \in S : \A y \in S : x <= y

\* a slice bound as list slicing normalises it
SliceBound(i, len) ==
    IF i < 0 THEN (IF i + len < 0 THEN 0 ELSE i + len)
    ELSE IF i > len THEN len ELSE i

SliceStart(f, len) == SliceBound(f * PAGE_SIZE, len)

SliceStop(f, len) ==
    LET lo == SliceStart(f, len)
        hi == SliceBound((f + 1) * PAGE_SIZE, len)
    IN IF hi < lo THEN lo ELSE hi

\* physical_memory[f * PAGE_SIZE:(f + 1) * PAGE_SIZE]
GetFrameSlice(mem, f) ==
    SubSeq(mem, SliceStart(f, Len(mem)) + 1, SliceStop(f, Len(mem)))

\* physical_memory[f * PAGE_SIZE:(f + 1) * PAGE_SIZE] = data
SetFrameSlice(mem, f, data) ==
    SubSeq(mem, 1, SliceStart(f, Len(mem))) \o data
        \o SubSeq(mem, SliceStop(f, Len(mem)) + 1, Len(mem))

\* whether physical_memory[i] raises IndexError
IndexError(mem, i) == i >= Len(mem) \/ i < 0 - Len(mem)

\* physical_memory[i], negative i counting from the end
GetItem(mem, i) == IF i < 0 THEN mem[i + Len(mem) + 1] ELSE mem[i + 1]

\* ---- the replacement algorithms ----------------------------------------
\* deque(maxlen = n).append(x)
DequeAppend(q, x, n) ==
    IF n = 0 THEN q
    ELSE IF Len(q) >= n THEN Append(Tail(q), x) ELSE Append(q, x)

\* lru(page_lru_counter, page_number, page_table); the dict is kept as the
\* sequence of its (key, val) items in insertion order
lru(counter, pn, pt) ==
    IF counter = <<>>
    THEN [frame |-> -1, counter |-> counter, pt |-> pt]
    ELSE LET least == Min({counter[i].key : i \in 1 .. Len(counter)})
             f == (CHOOSE i \in 1 .. Len(counter) : counter[i].key = least) - 1
             at == {i \in 1 .. Len(counter) : counter[i].key = f}
             counter2 == IF at = {}
                         THEN Append(counter, [key |-> f, val |-> pn])
                         ELSE [counter EXCEPT ![Min(at)].val = pn]
             pt2 == [pt EXCEPT ![f].loaded = FALSE]
         IN [frame |-> f, counter |-> counter2,
             pt |-> [pt2 EXCEPT ![pn] = [frame_number |-> f, loaded |-> TRUE]]]

\* fifo with the victim taken from the wrong end of the queue (pop() for
\* popleft()): the frame loaded last is evicted
fifoPopRight(queue, pn, frames, pt) ==
    IF Len(queue) < frames
    THEN [crash |-> FALSE, frame |-> Len(queue),
          queue |-> DequeAppend(queue, Len(queue), frames), pt |-> pt]
    ELSE IF queue = <<>>
    THEN [crash |-> TRUE, frame |-> -1, queue |-> queue, pt |-> pt]
    ELSE [crash |-> FALSE, frame |-> queue[Len(queue)],
          queue |-> queue,
          pt |-> [pt EXCEPT ![queue[Len(queue)]].loaded = FALSE]]

\* fifo(page_queue, page_number, frames, page_table); crash: popleft() of an
\* empty deque raises IndexError
fifo(queue, pn, frames, pt) ==
    IF Len(queue) < frames
    THEN [crash |-> FALSE, frame |-> Len(queue),
          queue |-> DequeAppend(queue, Len(queue), frames), pt |-> pt]
    ELSE IF queue = <<>>
    THEN [crash |-> TRUE, frame |-> -1, queue |-> queue, pt |-> pt]
    ELSE [crash |-> FALSE, frame |-> Head(queue),
          queue |-> DequeAppend(Tail(queue), Head(queue), frames),
          pt |-> [pt EXCEPT ![Head(queue)].loaded = FALSE]]

\* opt(page_opt_counter, page_opt_references, page_table): the value returned
\* is a page number
opt(refs, pt) ==
    LET unused == {p \in Pages : refs[p] = <<>>}
    IN IF unused # {}
       THEN [frame |-> Min(unused), pt |-> pt]
       ELSE LET victim_page ==
                    Min({p \in Pages : \A q \in Pages : refs[q][1] <= refs[p][1]})
            IN [frame |-> victim_page,
                pt |-> [pt EXCEPT ![victim_page].loaded = FALSE]]

\* the pre-pass of lines 123-129: for every page, the 0-based line numbers
\* of ADDRESS_FILE that reference it, in order
RECURSIVE LinesOf(_, _, _)
LinesOf(file, p, i) ==
    IF i > Len(file) THEN <<>>
    ELSE (IF (file[i] \div PAGE_SIZE) % NumPages = p THEN <<i - 1>> ELSE <<>>)
         \o LinesOf(file, p, i + 1)

OptReferences(file) == [p \in Pages |-> LinesOf(file, p, 1)]

\* ---- the backing store ---------------------------------------------------
\* load_page_from_backing_store(page_number): None when the file cannot be
\* opened, else what read(PAGE_SIZE) returns after the seek; byte i of the
\* store is written i
load_page_from_backing_store(store, pn) ==
    IF store < 0
    THEN [none |-> TRUE, data |-> <<>>]
    ELSE LET left == store - pn * PAGE_SIZE
             n == IF left < 0 THEN 0 ELSE IF left > PAGE_SIZE THEN PAGE_SIZE ELSE left
         IN [none |-> FALSE, data |-> [k \in 1 .. n |-> pn * PAGE_SIZE + k - 1]]

convert_physical_address(f, off) == f * PAGE_SIZE + off

\* ---- the translation of one address -------------------------------------
\* the TLB probe with the slip of the page-table scan: the entry's frame
\* number is compared with the page number
TLBLookupByFrame(t, pn) ==
    LET at == {i \in 1 .. Len(t) : t[i].frame_number = pn}
    IN IF at = {} THEN 0 ELSE Min(at)

\* lines 155-160: position of the first TLB entry of the page, 0 if none
TLBLookup(t, pn) ==
    LET at == {i \in 1 .. Len(t) : t[i].page_number = pn}
    IN IF at = {} THEN 0 ELSE Min(at)

\* lines 170-177: the first page-table entry the scan stops at, -1 if none
PageTableLookup(pt, pn) ==
    LET at == {i \in Pages : pt[i].frame_number = pn}
    IN IF at = {} THEN -1 ELSE Min(at)

\* the TLB insertion without the pop(0) of line 205
TLBInsertNoEvict(t, pn, f) ==
    Append(t, [page_number |-> pn, frame_number |-> f])

\* the TLB insertion with the slip of line 173: the page number is stored
\* where the frame belongs
TLBInsertPageAsFrame(t, pn, f) ==
    LET t2 == Append(t, [page_number |-> pn, frame_number |-> pn])
    IN IF Len(t2) > TLB_CAPACITY THEN Tail(t2) ELSE t2

\* the TLB insertion with pop() for pop(0) at line 205: the newest of the
\* entries already present is dropped, the oldest stays
TLBInsertDropNewest(t, pn, f) ==
    IF Len(t) >= TLB_CAPACITY /\ Len(t) >= 1
    THEN Append(SubSeq(t, 1, Len(t) - 1),
                [page_number |-> pn, frame_number |-> f])
    ELSE Append(t, [page_number |-> pn, frame_number |-> f])

\* lines 201-205
TLBInsert(t, pn, f) ==
    LET t2 == Append(t, [page_number |-> pn, frame_number |-> f])
    IN IF Len(t2) > TLB_CAPACITY THEN Tail(t2) ELSE t2

\* frame selection with the free-frame test off by one
\* (len(page_queue) < FRAMES - 1): the algorithm runs while a frame is free
SelectFrameOffByOne(pn) ==
    IF Len(page_queue) < FRAMES - 1
    THEN [crash |-> FALSE, frame |-> Len(page_queue),
          queue |-> DequeAppend(page_queue, Len(page_queue), FRAMES),
          pt |-> page_table, counter |-> page_lru_counter]
    ELSE IF PRA = "FIFO"
    THEN LET r == fifo(page_queue, pn, FRAMES, page_table)
         IN [crash |-> r.crash, frame |-> r.frame, queue |-> r.queue,
             pt |-> r.pt, counter |-> page_lru_counter]
    ELSE IF PRA = "LRU"
    THEN LET r == lru(page_lru_counter, pn, page_table)
         IN [crash |-> FALSE, frame |-> r.frame, queue |-> page_queue,
             pt |-> r.pt, counter |-> r.counter]
    ELSE LET r == opt(page_opt_references, page_table)
         IN [crash |-> FALSE, frame |-> r.frame, queue |-> page_queue,
             pt |-> r.pt, counter |-> page_lru_counter]

\* lines 183-192: a free frame, or the replacement algorithm
SelectFrame(pn) ==
    IF Len(page_queue) < FRAMES
    THEN [crash |-> FALSE, frame |-> Len(page_queue),
          queue |-> DequeAppend(page_queue, Len(page_queue), FRAMES),
          pt |-> page_table, counter |-> page_lru_counter]
    ELSE IF PRA = "FIFO"
    THEN LET r == fifo(page_queue, pn, FRAMES, page_table)
         IN [crash |-> r.crash, frame |-> r.frame, queue |-> r.queue,
             pt |-> r.pt, counter |-> page_lru_counter]
    ELSE IF PRA = "LRU"
    THEN LET r == lru(page_lru_counter, pn, page_table)
         IN [crash |-> FALSE, frame |-> r.frame, queue |-> page_queue,
             pt |-> r.pt, counter |-> r.counter]
    ELSE LET r == opt(page_opt_references, page_table)
         IN [crash |-> FALSE, frame |-> r.frame, queue |-> page_queue,
             pt |-> r.pt, counter |-> page_lru_counter]

\* lines 194-205 after frame selection `sel` and the read `page_data`:
\* a None page_data makes the slice assignment raise TypeError
LoadPage(sel, page_data, pn) ==
    [crash |-> sel.crash \/ page_data.none,
     frame |-> sel.frame,
     faults |-> page_faults + 1,
     queue |-> sel.queue,
     counter |-> sel.counter,
     pt |-> IF sel.crash \/ page_data.none THEN sel.pt
            ELSE [sel.pt EXCEPT ![pn] =
                     [frame_number |-> sel.frame, loaded |-> TRUE]],
     mem |-> IF sel.crash \/ page_data.none THEN physical_memory
             ELSE SetFrameSlice(physical_memory, sel.frame, page_data.data),
     tlb |-> IF sel.crash \/ page_data.none THEN tlb
             ELSE TLBInsert(tlb, pn, sel.frame)]

\* lines 179-205: the branch taken when the page-table scan found nothing
PageFault(pn) ==
    LoadPage(SelectFrame(pn),
             load_page_from_backing_store(BACKING_STORE, pn), pn)

\* the page-table scan leaving frame_number at -1 when the entry it stops at
\* is not loaded: the fault is counted at line 176 and again at line 181
ResolvedDoubleCount(hit, found, pn) ==
    IF hit # 0 \/ (found # -1 /\ page_table[found].loaded)
    THEN [crash |-> FALSE,
          frame |-> IF hit # 0 THEN tlb[hit].frame_number
                    ELSE page_table[found].frame_number,
          faults |-> page_faults,
          queue |-> page_queue, pt |-> page_table,
          counter |-> page_lru_counter, mem |-> physical_memory,
          tlb |-> tlb]
    ELSE IF found # -1
    THEN [PageFault(pn) EXCEPT !.faults = page_faults + 2]
    ELSE PageFault(pn)

\* the resolution with a TLB kept in order of use: a hit moves its entry to
\* the back of the TLB
ResolvedHitMovesToBack(hit, found, pn) ==
    IF hit # 0 \/ found # -1
    THEN [crash |-> FALSE,
          frame |-> IF hit # 0 THEN tlb[hit].frame_number
                    ELSE page_table[found].frame_number,
          faults |-> IF hit = 0 /\ ~page_table[found].loaded
                     THEN page_faults + 1 ELSE page_faults,
          queue |-> page_queue, pt |-> page_table,
          counter |-> page_lru_counter, mem |-> physical_memory,
          tlb |-> IF hit # 0
                  THEN Append(SubSeq(tlb, 1, hit - 1)
                                  \o SubSeq(tlb, hit + 1, Len(tlb)),
                              tlb[hit])
                  ELSE tlb]
    ELSE PageFault(pn)

\* lines 162-177: the outcome of the TLB probe `hit` and the page-table
\* scan `found`
Resolved(hit, found, pn) ==
    IF hit # 0 \/ found # -1
    THEN [crash |-> FALSE,
          frame |-> IF hit # 0 THEN tlb[hit].frame_number
                    ELSE page_table[found].frame_number,
          faults |-> IF hit = 0 /\ ~page_table[found].loaded
                     THEN page_faults + 1 ELSE page_faults,
          queue |-> page_queue, pt |-> page_table,
          counter |-> page_lru_counter, mem |-> physical_memory,
          tlb |-> tlb]
    ELSE PageFault(pn)

\* lines 154-205: the frame the address resolves to, and the tables after it
Resolve(pn) == Resolved(TLBLookup(tlb, pn), PageTableLookup(page_table, pn), pn)

\* ---- the run ---------------------------------------------------------------
Files == UNION {[1 .. n -> AddressSet] : n \in 0 .. MaxTrace}

\* the state main() starts from, for a given backing store
Start(stores) ==
    /\ pc = "start"
    /\ FRAMES \in FramesArgs
    /\ PRA \in PolicyArgs
    /\ ADDRESS_FILE \in Files
    /\ BACKING_STORE \in stores
    /\ pos = 0
    /\ physical_memory = <<>>
    /\ tlb = <<>>
    /\ page_table = [p \in Pages |-> [frame_number |-> -1, loaded |-> FALSE]]
    /\ page_queue = <<>>
    /\ page_lru_counter = <<>>
    /\ page_opt_references = [p \in Pages |-> <<>>]
    /\ page_faults = 0
    /\ tlb_hits = 0
    /\ tlb_misses = 0
    /\ total_addresses = 0
    /\ logical_address = -1
    /\ page_number = -1
    /\ offset = -1
    /\ tlb_hit = FALSE
    /\ frame_number = -1
    /\ physical_address = -1
    /\ value = NoneCell

Init == Start({FullStore})

InitStore == Start(StoreSet)

\* lines 93-99: the test that refuses a frame count
FramesRefused(n) == n < 0 \/ n > NumPages

\* lines 117-132: the names the program knows
KnownPolicy(name) == name \in {"FIFO", "LRU", "OPT"}

\* lines 84-143: argument checks and the construction of the tables
Configure ==
    /\ pc = "start"
    /\ IF FramesRefused(FRAMES)
       THEN /\ pc' = "rejected"
            /\ UNCHANGED <<physical_memory, page_opt_references>>
       ELSE /\ physical_memory' = [i \in 1 .. (PAGE_SIZE * FRAMES) |-> NoneCell]
            /\ page_opt_references' =
                   IF PRA = "OPT" THEN OptReferences(ADDRESS_FILE)
                   ELSE page_opt_references
            /\ pc' = IF KnownPolicy(PRA) THEN "run" ELSE "rejected"
    /\ UNCHANGED <<config, pos, tlb, page_table, page_queue, page_lru_counter,
                   counters, locals>>

\* lines 146-214: one pass of the loop body
Translate ==
    /\ pc = "run"
    /\ pos < Len(ADDRESS_FILE)
    /\ LET la == ADDRESS_FILE[pos + 1]
           pn == (la \div PAGE_SIZE) % NumPages
           off == la % PAGE_SIZE
           hit == TLBLookup(tlb, pn) # 0
       IN \E r \in {Resolve(pn)} :
          LET pa == convert_physical_address(r.frame, off)
              bad == r.crash \/ IndexError(r.mem, pa)
              slice == GetFrameSlice(r.mem, r.frame)
          IN
          /\ pos' = pos + 1
          /\ total_addresses' = total_addresses + 1
          /\ logical_address' = la
          /\ page_number' = pn
          /\ offset' = off
          /\ tlb_hit' = hit
          /\ tlb_hits' = IF hit THEN tlb_hits + 1 ELSE tlb_hits
          /\ tlb_misses' = IF hit THEN tlb_misses ELSE tlb_misses + 1
          /\ page_faults' = r.faults
          /\ frame_number' = r.frame
          /\ physical_memory' = r.mem
          /\ tlb' = r.tlb
          /\ page_table' = r.pt
          /\ page_queue' = r.queue
          /\ page_lru_counter' = r.counter
          /\ physical_address' = IF r.crash THEN physical_address ELSE pa
          /\ value' = IF bad THEN value ELSE GetItem(r.mem, pa)
          /\ pc' = IF bad \/ (\E i \in 1 .. Len(slice) : slice[i] = NoneCell)
                   THEN "crashed" ELSE "run"
    /\ UNCHANGED <<config, page_opt_references>>

\* lines 216-222: the file is exhausted, the statistics are reported
Finish ==
    /\ pc = "run"
    /\ pos = Len(ADDRESS_FILE)
    /\ pc' = "done"
    /\ UNCHANGED <<config, pos, tables, counters, locals>>

Next == Configure \/ Translate \/ Finish

Spec == Init /\ [][Next]_vars

\* the same run over a backing store that may be missing or cut short
SpecStore == InitStore /\ [][Next]_vars

\* ---- vocabulary of the properties --------------------------------------
\* the pages whose page-table entry says loaded
LoadedPages == {p \in Pages : page_table[p].loaded}

\* the bytes of page p in the backing store
PageBytes(p) == [k \in 1 .. PAGE_SIZE |-> p * PAGE_SIZE + k - 1]

\* page p is in a frame: its entry is loaded and the frame holds its bytes
Resident(p) ==
    /\ page_table[p].loaded
    /\ page_table[p].frame_number >= 0
    /\ GetFrameSlice(physical_memory, page_table[p].frame_number) = PageBytes(p)

\* the step translates one address
TranslateStep == pc = "run" /\ pos' = pos + 1

\* the step goes through lines 194-205: a page is loaded and enters the TLB
LoadStep == TranslateStep /\ tlb' # tlb

\* ---- C1 ------------------------------------------------------------------
\* C1: after every translated address, for a frame count of at least 1 and
\* every policy, at most FRAMES page-table entries are loaded.
C1_LoadedAtMostFrames ==
    (pc \in {"run", "done"} /\ FRAMES >= 1) => Cardinality(LoadedPages) <= FRAMES

\* ---- C2 ------------------------------------------------------------------
\* C2: a TLB miss on a page that is resident leaves page_faults alone and
\* loads nothing.
C2_ResidentMissIsNoFault ==
    [][(TranslateStep /\ FRAMES >= 1 /\ ~tlb_hit' /\ Resident(page_number'))
          => /\ page_faults' = page_faults
             /\ UNCHANGED <<physical_memory, page_table, page_queue>>]_vars

\* ---- C3 ------------------------------------------------------------------
\* C3: page_faults <= total_addresses and tlb_hits + tlb_misses =
\* total_addresses in every state; an address advances total_addresses by 1,
\* exactly one of tlb_hits and tlb_misses by 1 and page_faults by at most 1,
\* and no other step touches a counter.
C3_Counters ==
    /\ [](page_faults <= total_addresses
          /\ tlb_hits + tlb_misses = total_addresses)
    /\ [][IF pos' = pos + 1
          THEN /\ total_addresses' = total_addresses + 1
               /\ \/ tlb_hits' = tlb_hits + 1 /\ tlb_misses' = tlb_misses
                  \/ tlb_hits' = tlb_hits /\ tlb_misses' = tlb_misses + 1
               /\ page_faults' \in {page_faults, page_faults + 1}
          ELSE UNCHANGED counters]_vars

\* a finished run that saw a TLB hit, a fault and a miss without a fault
C3_Witness ==
    /\ pc = "done"
    /\ FRAMES >= 1
    /\ tlb_hits >= 1
    /\ page_faults >= 1
    /\ tlb_misses > page_faults

\* ---- C4 ------------------------------------------------------------------
\* C4: the TLB never holds more than TLB_CAPACITY entries, nor two entries
\* of one page.
C4_TlbBounded ==
    /\ Len(tlb) <= TLB_CAPACITY
    /\ \A i, j \in 1 .. Len(tlb) :
          i # j => tlb[i].page_number # tlb[j].page_number

\* the TLB is full and has dropped the entry of a page that was loaded
C4_Witness ==
    /\ FRAMES >= 1
    /\ Len(tlb) = TLB_CAPACITY
    /\ \E p \in Pages :
          page_table[p].frame_number # -1 /\ TLBLookup(tlb, p) = 0

\* ---- C5 ------------------------------------------------------------------
\* C5: when an address is translated twice in a row and the second
\* translation counts no fault, the second translation is a TLB hit and
\* gives the physical address and the byte of the first.
C5_RepeatIsTlbHit ==
    [][(TranslateStep /\ FRAMES >= 1 /\ pos >= 1
          /\ logical_address' = logical_address
          /\ page_faults' = page_faults)
          => /\ tlb_hit'
             /\ physical_address' = physical_address
             /\ value' = value]_vars

\* ---- C6 ------------------------------------------------------------------
\* the page of line i of the file
PageOfLine(i) == (ADDRESS_FILE[i] \div PAGE_SIZE) % NumPages

\* every frame holds exactly one loaded page
WellOccupied ==
    \A f \in 0 .. (FRAMES - 1) :
        Cardinality({p \in LoadedPages : page_table[p].frame_number = f}) = 1

Occupant(f) == CHOOSE p \in LoadedPages : page_table[p].frame_number = f

\* the last line read so far that references page p, 0 if none
LastReference(p) ==
    LET at == {i \in 1 .. pos : PageOfLine(i) = p}
    IN IF at = {} THEN 0 ELSE CHOOSE i \in at : \A j \in at : j <= i

\* the frame whose page was referenced least recently, lowest index on ties
LeastRecentFrame ==
    CHOOSE f \in 0 .. (FRAMES - 1) : \A g \in 0 .. (FRAMES - 1) :
        \/ LastReference(Occupant(f)) < LastReference(Occupant(g))
        \/ LastReference(Occupant(f)) = LastReference(Occupant(g)) /\ f <= g

\* C6: under LRU with all frames full, a fault takes the frame whose page
\* was referenced least recently.
C6_LruVictim ==
    [][(LoadStep /\ PRA = "LRU" /\ FRAMES >= 1 /\ Len(page_queue) = FRAMES
          /\ WellOccupied)
          => frame_number' = LeastRecentFrame]_vars

\* ---- C7 ------------------------------------------------------------------
\* the next line after the one being translated that references page p;
\* past the end of the file when there is none
NextUse(p) ==
    LET at == {i \in (pos + 2) .. Len(ADDRESS_FILE) : PageOfLine(i) = p}
    IN IF at = {} THEN Len(ADDRESS_FILE) + 1 ELSE Min(at)

\* the loaded pages whose next reference is farthest away
Farthest == {v \in LoadedPages : \A u \in LoadedPages : NextUse(u) <= NextUse(v)}

\* C7: under OPT with all frames full, a fault evicts a loaded page whose
\* next reference is farthest away (never again before any later one) and
\* the new page gets the frame of that page.
C7_OptVictim ==
    [][(LoadStep /\ PRA = "OPT" /\ FRAMES >= 1 /\ Len(page_queue) = FRAMES)
          => \E v \in Farthest :
                /\ frame_number' = page_table[v].frame_number
                /\ ~page_table'[v].loaded]_vars

\* ---- C8 ------------------------------------------------------------------
\* C8: under FIFO the queue is the load order of the frames: a load into a
\* free frame appends that frame, a load with all frames full takes the
\* frame at the front and moves it to the back, which leaves the next frame
\* in round-robin order at the front, and no other step touches the queue.
C8_FifoRoundRobin ==
    [][(TranslateStep /\ PRA = "FIFO" /\ FRAMES >= 1)
          => IF tlb' = tlb
             THEN page_queue' = page_queue
             ELSE IF Len(page_queue) < FRAMES
             THEN /\ frame_number' = Len(page_queue)
                  /\ page_queue' = Append(page_queue, frame_number')
             ELSE /\ frame_number' = Head(page_queue)
                  /\ page_queue' = Append(Tail(page_queue), Head(page_queue))
                  /\ Head(page_queue') = (frame_number' + 1) % FRAMES]_vars

\* every address so far was loaded, and the second eviction took frame 1
C8_Witness ==
    /\ PRA = "FIFO"
    /\ FRAMES >= 2
    /\ Len(page_queue) = FRAMES
    /\ pos >= FRAMES + 2
    /\ page_faults = pos
    /\ Cardinality({PageOfLine(i) : i \in 1 .. pos}) = pos
    /\ frame_number = 1

\* ---- C9 ------------------------------------------------------------------
\* C9: with at least one frame, the first address of a run is a TLB miss and
\* a page fault loaded into frame 0; the same address again is a TLB hit
\* that leaves page_faults at 1.
C9_FirstThenRepeat ==
    FRAMES >= 1 =>
        /\ pos = 1 =>
              /\ pc # "crashed"
              /\ ~tlb_hit
              /\ page_faults = 1 /\ tlb_misses = 1 /\ tlb_hits = 0
              /\ frame_number = 0
              /\ page_table[page_number] = [frame_number |-> 0, loaded |-> TRUE]
        /\ (pos = 2 /\ ADDRESS_FILE[1] = ADDRESS_FILE[2]) =>
              /\ pc # "crashed"
              /\ tlb_hit
              /\ page_faults = 1 /\ tlb_misses = 1 /\ tlb_hits = 1
              /\ frame_number = 0

C9_Witness ==
    /\ FRAMES >= 1
    /\ pos = 2
    /\ ADDRESS_FILE[1] = ADDRESS_FILE[2]
    /\ page_number # 0
    /\ tlb_hits = 1

\* ---- C10 -----------------------------------------------------------------
\* the store holds all PAGE_SIZE bytes of page p
FullRead(p) ==
    LET page_data == load_page_from_backing_store(BACKING_STORE, p)
    IN ~page_data.none /\ Len(page_data.data) = PAGE_SIZE

\* C10: when the page of a fault cannot be read in full, the run aborts in
\* that step, or the address is skipped: no page-table entry is marked
\* loaded, no TLB entry is inserted and no frame is written.
C10_NoPartialLoad ==
    [][(TranslateStep /\ FRAMES >= 1 /\ ~tlb_hit'
          /\ PageTableLookup(page_table, page_number') = -1
          /\ ~FullRead(page_number'))
          => \/ pc' = "crashed"
             \/ /\ tlb' = tlb
                /\ LoadedPages' \subseteq LoadedPages
                /\ physical_memory' = physical_memory]_vars

---------------------------------------------------------------------------
(* C11.  A configuration whose frame count is outside 1 .. 256 (scaled:   *)
(* 1 .. NumPages), frames = 0 included, or whose policy name is unknown,   *)
(* is rejected before any address is translated: no translation step is   *)
(* taken, and no counter, page-table, TLB or memory cell is changed.       *)
Untouched ==
    /\ pos = 0
    /\ total_addresses = 0 /\ page_faults = 0
    /\ tlb_hits = 0 /\ tlb_misses = 0
    /\ tlb = << >>
    /\ page_queue = << >>
    /\ \A p \in DOMAIN page_table : ~page_table[p].loaded
    /\ \A i \in 1 .. Len(physical_memory) : physical_memory[i] = NoneCell

C11_BadConfigRejected ==
    (FRAMES \notin 1 .. NumPages \/ ~KnownPolicy(PRA)) => Untouched

---------------------------------------------------------------------------
(* C12.  In every reachable state and under every policy, each page-table *)
(* entry with loaded = TRUE has a frame_number in [0, FRAMES): the frame   *)
(* indices the free-frame path and the policies produce, and that reach    *)
(* the page table and the TLB, are valid frame indices.                    *)
ValidFrame(f) == f \in 0 .. (FRAMES - 1)

C12_FramesInRange ==
    (pc \in {"run", "done"} /\ FRAMES >= 1)
        => /\ \A p \in LoadedPages : ValidFrame(page_table[p].frame_number)
           /\ \A i \in 1 .. Len(tlb) : ValidFrame(tlb[i].frame_number)

---------------------------------------------------------------------------
(* C13.  When a fault is served by evicting a victim frame, the page that *)
(* occupied the frame has loaded = FALSE after the step; so in every       *)
(* reachable state no two page-table entries with loaded = TRUE share a    *)
(* frame_number.                                                           *)
C13_OneLoadedPagePerFrame ==
    (pc \in {"run", "done"} /\ FRAMES >= 1)
        => \A p, q \in LoadedPages :
              p # q => page_table[p].frame_number # page_table[q].frame_number

---------------------------------------------------------------------------
(* C14.  Whenever a translation step increments page_faults for a         *)
(* reference to page p, the same step chooses a frame f, writes p's bytes  *)
(* at f, sets page_table[p] to (frame_number = f, loaded = TRUE) and       *)
(* inserts (p, f) into the TLB: no step counts a fault without loading the *)
(* page and updating page table and TLB.                                   *)
C14_FaultLoads ==
    [][(TranslateStep /\ FRAMES >= 1 /\ page_faults' = page_faults + 1)
        => /\ physical_memory' =
                  SetFrameSlice(physical_memory, frame_number',
                                PageBytes(page_number'))
           /\ page_table'[page_number'] =
                  [frame_number |-> frame_number', loaded |-> TRUE]
           /\ tlb' = TLBInsert(tlb, page_number', frame_number')]_vars

---------------------------------------------------------------------------
(* C15.  For every translated address, under any policy and frame count,  *)
(* the byte read at physical_address = frame * PAGE_SIZE + offset is the   *)
(* backing-store byte at page_number * PAGE_SIZE + offset: the frame used  *)
(* (by TLB hit, page-table hit or fault) holds the referenced page.  The   *)
(* backing store of Spec holds at every position the position itself.      *)
C15_ValueIsPageByte ==
    (pc \in {"run", "done"} /\ FRAMES >= 1 /\ pos >= 1)
        => /\ physical_address = frame_number * PAGE_SIZE + offset
           /\ value = page_number * PAGE_SIZE + offset

---------------------------------------------------------------------------
(* C16.  In every reachable state each TLB entry (p, f) agrees with the   *)
(* page table: page_table[p].loaded = TRUE and page_table[p].frame_number  *)
(* = f; in particular no TLB entry survives the eviction of its page.      *)
C16_TlbAgreesWithPageTable ==
    (pc \in {"run", "done"} /\ FRAMES >= 1)
        => \A i \in 1 .. Len(tlb) :
              /\ page_table[tlb[i].page_number].loaded
              /\ page_table[tlb[i].page_number].frame_number
                     = tlb[i].frame_number

(* C16, amended.  Each TLB entry (p, f) carries the frame the page table  *)
(* records for p, page_table[p].frame_number = f, under every policy; the  *)
(* entry is removed by capacity eviction only, so page_table[p].loaded may *)
(* be FALSE: the entry survives the eviction of its page.                  *)
C16_TlbFrameIsPageTableFrame ==
    \A i \in 1 .. Len(tlb) :
        page_table[tlb[i].page_number].frame_number = tlb[i].frame_number

C16_Witness ==
    /\ FRAMES >= 1
    /\ \E i \in 1 .. Len(tlb) : ~page_table[tlb[i].page_number].loaded

---------------------------------------------------------------------------
(* C17.  TLB eviction is strict insertion order under every page-          *)
(* replacement policy: the TLB is kept in order of insertion, a new entry  *)
(* goes to the back, and when the insertion makes the TLB exceed           *)
(* TLB_CAPACITY entries the one removed is the front one, the earliest     *)
(* inserted of those present; a TLB hit never changes the order.           *)
NewEntry == [page_number |-> page_number', frame_number |-> frame_number']

C17_TlbInsertionOrder ==
    [][TranslateStep
        => \/ tlb' = tlb
           \/ /\ ~tlb_hit'
              /\ Len(tlb) < TLB_CAPACITY
              /\ tlb' = Append(tlb, NewEntry)
           \/ /\ ~tlb_hit'
              /\ Len(tlb) = TLB_CAPACITY
              /\ tlb' = Append(Tail(tlb), NewEntry)]_vars

C17_Witness ==
    /\ FRAMES >= 1
    /\ PRA \in {"LRU", "OPT"}
    /\ tlb_hits >= 1
    /\ Len(tlb) = TLB_CAPACITY
    /\ \E p \in LoadedPages : TLBLookup(tlb, p) = 0

---------------------------------------------------------------------------
(* C18.  Free-frame-first: while fewer than FRAMES frames have been        *)
(* allocated, a page fault takes the next free frame index in allocation   *)
(* order (0, 1, 2, ...) and evicts nothing; a replacement algorithm runs   *)
(* only when all FRAMES frames are allocated, hence (FRAMES >= 1) never    *)
(* with no resident frame.  The frames allocated are those of page_queue;  *)
(* an algorithm that ran shows as a fault whose frame is not the next free *)
(* one, or as a page-table entry that lost its loaded flag.                *)
OthersKept ==
    \A p \in Pages \ {page_number'} : page_table'[p] = page_table[p]

C18_FreeFrameFirst ==
    /\ [](FRAMES >= 1 =>
             /\ Len(page_queue) <= FRAMES
             /\ Len(page_queue) < FRAMES
                    => page_queue = [i \in 1 .. Len(page_queue) |-> i - 1])
    /\ [][(TranslateStep /\ FRAMES >= 1 /\ page_faults' = page_faults + 1)
            => IF Len(page_queue) < FRAMES
               THEN /\ frame_number' = Len(page_queue)
                    /\ page_queue' = Append(page_queue, Len(page_queue))
                    /\ OthersKept
                    /\ LoadedPages' = LoadedPages \cup {page_number'}
                    /\ \A f \in 0 .. (Len(page_queue) - 1) :
                          GetFrameSlice(physical_memory', f)
                              = GetFrameSlice(physical_memory, f)
               ELSE Len(page_queue) = FRAMES /\ Len(page_queue') = FRAMES]_vars

C18_Witness ==
    /\ FRAMES >= 3
    /\ page_queue = <<0, 1>>
    /\ frame_number = 1
    /\ page_faults = 2
    /\ Cardinality(LoadedPages) = 2

---------------------------------------------------------------------------
(* C19.  A translation step that is a TLB hit changes only tlb_hits and   *)
(* total_addresses, each by +1: page table, TLB contents and order,        *)
(* physical memory, frame queue and replacement state, page_faults and     *)
(* tlb_misses are unchanged.                                               *)
C19_TlbHitFrame ==
    [][(TranslateStep /\ tlb_hit')
        => /\ tlb_hits' = tlb_hits + 1
           /\ total_addresses' = total_addresses + 1
           /\ UNCHANGED <<page_faults, tlb_misses>>
           /\ UNCHANGED <<page_table, tlb, physical_memory>>
           /\ UNCHANGED <<page_queue, page_lru_counter,
                          page_opt_references>>]_vars

C19_Witness ==
    /\ FRAMES >= 1
    /\ tlb_hit
    /\ tlb_hits = 1
    /\ page_faults >= 2
    /\ Len(tlb) = TLB_CAPACITY
    /\ TLBLookup(tlb, page_number) = 1

============================================================================
